---- MODULE Spec2Model ----
(***************************************************************************)
(* Model of the playlist player in assets/js/scripts.js: the Playlist      *)
(* (catalog with a wrapping cursor), the AudioEngine (transport around one *)
(* HTML audio element) and the handlers PlayerUI wires to them.            *)
(*                                                                         *)
(* CatalogSpec lets client code call the Playlist methods with any         *)
(* argument; Spec is the page after the bootstrap: the PlayerUI handlers,  *)
(* the events of the audio element and the AudioEngine methods called with *)
(* any argument.  The DOM is not modelled beyond the now-playing label.    *)
(***************************************************************************)
EXTENDS Integers, Sequences, FiniteSets

\* ------------------------------------------------------------------ bounds
MaxTracks == 3      \* longest catalog explored
MaxShown == 2       \* longest catalog the player is started on
MaxArg == 7         \* setIndex arguments range over -MaxArg..MaxArg
MaxDur == 1         \* longest media duration, in seconds
PScale == 2         \* seek percentages are k/PScale; times are kept in 1/PScale s
MaxPending == 2     \* most load continuations in flight at once
MaxBeeps == 2       \* calls of _tinyBeepDataURI() followed

\* --------------------------------------------------------------- constants
\* duration of an audio element with no metadata yet (NaN in the browser)
NaN == -1

VARIABLES
    tracks,      \* Playlist.tracks : sequence of Track
    index,       \* Playlist.index
    ret,         \* value returned by the latest Playlist call of client code
    call,        \* latest Playlist method call of client code: [op, arg, before]
    prevCall,    \* the call of client code before that one
    trail,       \* cursor values in front of its latest consecutive next() calls
    src,         \* audio.src
    paused,      \* audio.paused
    currentTime, \* audio.currentTime, in 1/PScale seconds
    duration,    \* audio.duration in seconds, NaN until the metadata is known
    pending,     \* async calls suspended at their await, oldest first
    issued,      \* argument of the most recently issued load
    nowPlaying,  \* id of the track named by the now-playing label, 0 when blank
    step,        \* latest transport or presentation step: [op, arg]
    onTimeCb,    \* AudioEngine._onTime
    onEndCb,     \* AudioEngine._onEnd
    timeReg,     \* the last two callbacks passed to onTime, oldest first
    endReg,      \* the last two callbacks passed to onEnd, oldest first
    beepPc,      \* where the running _tinyBeepDataURI() call is
    beepI,       \* its loop counter i
    data,        \* its data, as char codes
    wav,         \* its wav, as char codes
    beepCalls,   \* calls of _tinyBeepDataURI() that have returned
    firstWav     \* wav of the first of them

catalogVars == <<tracks, index, ret, call, prevCall, trail>>

\* what is remembered of the Playlist calls made by client code
observed == <<ret, call, prevCall, trail>>

engineVars == <<src, paused, currentTime, duration, pending, issued>>

handlerVars == <<onTimeCb, onEndCb, timeReg, endReg>>

beepVars == <<beepPc, beepI, data, wav, beepCalls, firstWav>>

vars == <<tracks, index, ret, call, prevCall, trail,
          src, paused, currentTime, duration, pending, issued, nowPlaying, step,
          onTimeCb, onEndCb, timeReg, endReg,
          beepPc, beepI, data, wav, beepCalls, firstWav>>

\* ------------------------------------------------------------------ Track
\* audioUrl of the demo tracks, by position
demoUrls == << "assets/musics/1.mp3", "assets/audio2.mp3", "assets/audio3.mp3",
               "assets/audio4.mp3", "assets/audio5.mp3", "assets/audio6.mp3" >>

\* new Track({id, audioUrl}) : audioUrl defaults to "" when absent
Track(id, hasUrl) == [id |-> id, audioUrl |-> IF hasUrl THEN demoUrls[id] ELSE ""]

Null == [null |-> TRUE]

\* ret before any Playlist method has returned
NoReturn == [none |-> TRUE]

\* issued before any load
NoLoad == [none |-> TRUE]

\* catalogs a Playlist can be constructed with, one of each length: ids are
\* unique and the last track of a catalog of several lacks its audio file
Catalogs ==
    { [k \in 1..n |-> Track(k, k = 1 \/ k < n)] : n \in 0..MaxTracks }

\* ---------------------------------------------------------------- Playlist
\* JavaScript's % on integers: the remainder takes the sign of the dividend
JsRem(a, b) == IF a >= 0 THEN a % b ELSE 0 - ((0 - a) % b)

\* the cursor setIndex(i) leaves behind, for a catalog of n >= 1 tracks
Wrap_singleRem(i, n) == JsRem(i, n)
Wrap_addOnce(i, n) == JsRem(i + n, n)
Wrap(i, n) == JsRem(JsRem(i, n) + n, n)

\* setIndex(i){ if(!this.tracks.length) return; this.index = ... }
setIndex_noEmptyGuard(i) == IF Len(tracks) = 0 THEN NaN ELSE Wrap(i, Len(tracks))
setIndex_clamps(i) ==
    IF Len(tracks) = 0 THEN index
    ELSE IF i < 0 THEN 0 ELSE IF i >= Len(tracks) THEN Len(tracks) - 1 ELSE i
setIndex(i) == IF Len(tracks) = 0 THEN index ELSE Wrap(i, Len(tracks))

\* current(){ return this.tracks[this.index] ?? null; } evaluated at cursor c
current(c) == IF c + 1 \in DOMAIN tracks THEN tracks[c + 1] ELSE Null

Record(op, arg) ==
    /\ call' = [op |-> op, arg |-> arg, before |-> index]
    /\ prevCall' = call

Last(s, n) == IF Len(s) <= n THEN s ELSE SubSeq(s, Len(s) - n + 1, Len(s))

\* effects of the Playlist methods on the Playlist and on what is remembered
\* of its calls
plSetIndex(i) ==
    /\ index' = setIndex(i)
    /\ Record("setIndex", i)
    /\ trail' = << >>
    /\ UNCHANGED <<tracks, ret>>

plCurrent ==
    /\ ret' = current(index)
    /\ Record("current", 0)
    /\ trail' = << >>
    /\ UNCHANGED <<tracks, index>>

\* next(){ this.setIndex(this.index + 1); return this.current(); }
plNext ==
    /\ index' = setIndex(index + 1)
    /\ ret' = current(index')
    /\ Record("next", 0)
    /\ trail' = Last(Append(trail, index), Len(tracks))
    /\ UNCHANGED tracks

\* prev(){ this.setIndex(this.index - 1); return this.current(); }
plPrev ==
    /\ index' = setIndex(index - 1)
    /\ ret' = current(index')
    /\ Record("prev", 0)
    /\ trail' = << >>
    /\ UNCHANGED tracks

\* the Playlist methods called by client code
PlaylistSetIndex(i) == plSetIndex(i) /\ UNCHANGED <<engineVars, nowPlaying, step, handlerVars, beepVars>>

PlaylistCurrent == plCurrent /\ UNCHANGED <<engineVars, nowPlaying, step, handlerVars, beepVars>>

PlaylistNext == plNext /\ UNCHANGED <<engineVars, nowPlaying, step, handlerVars, beepVars>>

PlaylistPrev == plPrev /\ UNCHANGED <<engineVars, nowPlaying, step, handlerVars, beepVars>>

\* ------------------------------------------------------------- AudioEngine
\* _tinyBeepDataURI(): the data URI of the generated beep
tinyBeepDataURI == "data:audio/wav;base64,<beep>"

\* the value load(track) assigns to audio.src
loadSrc_nullOnly(track) == IF track = Null THEN tinyBeepDataURI ELSE track.audioUrl
loadSrc(track) ==
    IF track = Null \/ track.audioUrl = "" THEN tinyBeepDataURI ELSE track.audioUrl

\* load(track) up to its await: the source is assigned, which makes the audio
\* element drop what it was playing, and the caller is suspended
IssueLoad_keepsPosition(kind, track) ==
    /\ Len(pending) < MaxPending
    /\ src' = loadSrc(track)
    /\ paused' = TRUE
    /\ currentTime' = currentTime
    /\ duration' = NaN
    /\ pending' = Append(pending, IF kind = "play" THEN [kind |-> kind, track |-> track]
                                   ELSE [kind |-> kind])
    /\ issued' = track
IssueLoad_onlyWhenPaused(kind, track) ==
    /\ Len(pending) < MaxPending
    /\ paused
    /\ src' = loadSrc(track)
    /\ paused' = TRUE
    /\ currentTime' = 0
    /\ duration' = NaN
    /\ pending' = Append(pending, IF kind = "play" THEN [kind |-> kind, track |-> track]
                                   ELSE [kind |-> kind])
    /\ issued' = track
IssueLoad(kind, track) ==
    /\ Len(pending) < MaxPending
    /\ src' = loadSrc(track)
    /\ paused' = TRUE
    /\ currentTime' = 0
    /\ duration' = NaN
    /\ pending' = Append(pending, IF kind = "play" THEN [kind |-> kind, track |-> track]
                                   ELSE [kind |-> kind])
    /\ issued' = track

\* audio.play(): the element starts unless the browser refuses the request
audioPlay(ok) == IF ok THEN FALSE ELSE paused

\* what the caller of an operation that asks for a start gets back
\* play(){ return this.audio.play(); } : the promise of audio.play()
playResult(ok) == IF ok THEN "fulfilled" ELSE "rejected"

\* toggle(){ this.audio.paused ? this.play() : this.pause(); } : nothing
toggleResult(ok) == "undefined"

\* PlayerUI.play : this.engine.play() is neither awaited nor returned, the
\* promise of play(track) is fulfilled whatever becomes of the start
uiPlayResult(ok) == "fulfilled"

\* the start request of a step: whether one was made, whether the browser
\* accepted it and what the caller was told
Start(asked, ok, told) == [start |-> asked, ok |-> ok, told |-> told]

\* callbacks: the two the constructor installs, the two PlayerUI registers
\* and those of other client code
Noop == "() => {}"
UiOnTime == "(info) => this._updateProgress(info)"
UiOnEnd == "() => this.play(this.playlist.next())"
Callbacks == {"cb1", "cb2"}

\* the callbacks one notification runs: the constructor adds one listener
\* per event, and it calls the callback registered at that moment
dispatch_perRegistration(cb) == IF cb = Noop THEN <<cb>> ELSE <<cb, cb>>
dispatch(cb) == <<cb>>

\* seekPercent(p) with p = k/PScale: the new audio.currentTime
seekTime_noGuard(k) == k * duration
seekTime(k) == IF duration > 0 THEN k * duration ELSE currentTime

\* Math.max(0, Math.min(1, p)) for p = k/PScale
Clamp01_none(k) == k
Clamp01(k) == IF k > PScale THEN PScale ELSE IF k < 0 THEN 0 ELSE k

\* timeInfo(): percent is the fraction num/den
Zero == [num |-> 0, den |-> 1]
One == [num |-> 1, den |-> 1]
MathMax0(f) == IF f.num < 0 THEN Zero ELSE f
MathMin1(f) == IF f.num > f.den THEN One ELSE f
timeInfo_noFloor ==
    LET d == IF duration = NaN THEN 0 ELSE duration
        c == currentTime
    IN  [current |-> c, duration |-> d,
         percent |-> IF d # 0 THEN MathMin1([num |-> c, den |-> d * PScale]) ELSE Zero]
timeInfo ==
    LET d == IF duration = NaN THEN 0 ELSE duration
        c == currentTime
    IN  [current |-> c, duration |-> d,
         percent |-> IF d # 0 THEN MathMin1(MathMax0([num |-> c, den |-> d * PScale]))
                     ELSE Zero]

\* tracks a caller can pass to load
Items == {Null} \cup {tracks[k] : k \in DOMAIN tracks}

\* durations a source can turn out to have, in seconds
Durations == 0..MaxDur

\* seek percentages k/PScale, from below 0 to above 1
SeekArgs == (0 - 1)..(PScale + 1)

\* engine.load(track) called on its own
EngineLoad(track) ==
    /\ IssueLoad("load", track)
    /\ step' = [op |-> "load", arg |-> currentTime > 0]
    /\ UNCHANGED <<catalogVars, nowPlaying,
                   handlerVars, beepVars>>

\* play(){ return this.audio.play(); }
EnginePlay ==
    /\ \E ok \in BOOLEAN :
          /\ paused' = audioPlay(ok)
          /\ step' = [op |-> "play", arg |-> Start(TRUE, ok, playResult(ok))]
    /\ UNCHANGED <<catalogVars, src, currentTime, duration, pending, issued, nowPlaying,
                   handlerVars, beepVars>>

\* pause(){ this.audio.pause(); }
EnginePause ==
    /\ paused' = TRUE
    /\ step' = [op |-> "pause", arg |-> 0]
    /\ UNCHANGED <<catalogVars, src, currentTime, duration, pending, issued, nowPlaying,
                   handlerVars, beepVars>>

\* toggle(){ this.audio.paused ? this.play() : this.pause(); } : audio.paused
\* after the call
toggle_alwaysPlays(ok) == audioPlay(ok)
toggle(ok) == IF paused THEN audioPlay(ok) ELSE TRUE

\* toggle() called, also by the play button and the space key
EngineToggle ==
    /\ \E ok \in BOOLEAN :
          /\ paused \/ ok
          /\ paused' = toggle(ok)
          /\ step' = [op |-> "toggle", arg |-> Start(paused, ok, toggleResult(ok)),
                       again |-> step.op = "toggle" /\ step.arg.ok]
    /\ UNCHANGED <<catalogVars, src, currentTime, duration, pending, issued, nowPlaying,
                   handlerVars, beepVars>>

\* seekPercent(p){ if(this.audio.duration>0){ this.audio.currentTime = p * duration; } }
EngineSeekPercent(k) ==
    /\ currentTime' = seekTime(k)
    /\ step' = [op |-> "seekPercent", arg |-> k]
    /\ UNCHANGED <<catalogVars, src, paused, duration, pending, issued, nowPlaying,
                   handlerVars, beepVars>>

\* ---------------------------------------------------------------- PlayerUI
\* play(track) up to its await
uiPlay(track) ==
    \/ /\ track = Null
       /\ UNCHANGED engineVars
    \/ /\ track # Null
       /\ IssueLoad("play", track)

\* PlayerUI.play(track) called on its own
UIPlay(track) ==
    /\ uiPlay(track)
    /\ step' = [op |-> "uiPlay", arg |-> 0]
    /\ UNCHANGED <<catalogVars, nowPlaying,
                   handlerVars, beepVars>>

\* a suspended call can resume once the calls of play suspended before it have
CanResume_anyOrder(k) == TRUE
CanResume(k) ==
    \/ pending[k].kind = "load"
    \/ \A j \in 1..(k - 1) : pending[j].kind # "play"

Without(s, k) == SubSeq(s, 1, k - 1) \o SubSeq(s, k + 1, Len(s))

\* the rest of load (nothing) and the rest of play after its await:
\* engine.play(), then the now-playing label
Resume_reassignsSrc(k) ==
    /\ k \in DOMAIN pending
    /\ CanResume(k)
    /\ pending' = Without(pending, k)
    /\ \/ /\ pending[k].kind = "load"
          /\ step' = [op |-> "resumeLoad", arg |-> 0]
          /\ UNCHANGED <<src, paused, nowPlaying>>
       \/ /\ pending[k].kind = "play"
          /\ src' = loadSrc(pending[k].track)
          /\ \E ok \in BOOLEAN :
                /\ paused' = audioPlay(ok)
                /\ step' = [op |-> "resumePlay", arg |-> Start(TRUE, ok, uiPlayResult(ok)),
                             again |-> step.op = "resumePlay"]
          /\ nowPlaying' = pending[k].track.id
    /\ UNCHANGED <<catalogVars, currentTime, duration, issued,
                   handlerVars, beepVars>>
Resume(k) ==
    /\ k \in DOMAIN pending
    /\ CanResume(k)
    /\ pending' = Without(pending, k)
    /\ \/ /\ pending[k].kind = "load"
          /\ step' = [op |-> "resumeLoad", arg |-> 0]
          /\ UNCHANGED <<paused, nowPlaying>>
       \/ /\ pending[k].kind = "play"
          /\ \E ok \in BOOLEAN :
                /\ paused' = audioPlay(ok)
                /\ step' = [op |-> "resumePlay", arg |-> Start(TRUE, ok, uiPlayResult(ok)),
                             again |-> step.op = "resumePlay"]
          /\ nowPlaying' = pending[k].track.id
    /\ UNCHANGED <<catalogVars, src, currentTime, duration, issued,
                   handlerVars, beepVars>>

\* prevBtn click, ArrowLeft
PrevClick ==
    /\ index' = setIndex(index - 1)
    /\ uiPlay(current(index'))
    /\ step' = [op |-> "prevClick", arg |-> 0]
    /\ UNCHANGED <<tracks, observed, nowPlaying, handlerVars, beepVars>>

\* nextBtn click, ArrowRight
NextClick ==
    /\ index' = setIndex(index + 1)
    /\ uiPlay(current(index'))
    /\ step' = [op |-> "nextClick", arg |-> 0]
    /\ UNCHANGED <<tracks, observed, nowPlaying, handlerVars, beepVars>>

\* click on the grid button of the track at position idx
TrackClick(idx) ==
    /\ idx + 1 \in DOMAIN tracks
    /\ index' = setIndex(idx)
    /\ uiPlay(tracks[idx + 1])
    /\ step' = [op |-> "trackClick", arg |-> 0]
    /\ UNCHANGED <<tracks, observed, nowPlaying, handlerVars, beepVars>>

\* click on the progress bar at k/PScale of its width
ProgressClick(k) ==
    /\ currentTime' = seekTime(Clamp01(k))
    /\ step' = [op |-> "progressClick", arg |-> k]
    /\ UNCHANGED <<catalogVars, src, paused, duration, pending, issued, nowPlaying,
                   handlerVars, beepVars>>

\* ----------------------------------------------------- audio element events
\* the element learns the duration of its source
LoadedMetadata(d) ==
    /\ src # ""
    /\ duration = NaN
    /\ duration' = d
    /\ step' = [op |-> "loadedmetadata", arg |-> 0]
    /\ UNCHANGED <<catalogVars, src, paused, currentTime, pending, issued, nowPlaying,
                   handlerVars, beepVars>>

\* playback moves on
Advance ==
    /\ ~paused
    /\ duration # NaN
    /\ currentTime < duration * PScale
    /\ currentTime' = currentTime + 1
    /\ step' = [op |-> "advance", arg |-> 0]
    /\ UNCHANGED <<catalogVars, src, paused, duration, pending, issued, nowPlaying,
                   handlerVars, beepVars>>

\* "timeupdate" : this._onTime(this.timeInfo()); the callback of PlayerUI
\* writes to the DOM only
TimeUpdate ==
    /\ step' = [op |-> "timeupdate", arg |-> timeInfo, calls |-> dispatch(onTimeCb)]
    /\ UNCHANGED <<catalogVars, engineVars, nowPlaying,
                   handlerVars, beepVars>>

\* playback has reached the end of the media: the element pauses and fires
\* "ended" : this._onEnd(), which PlayerUI sets to this.play(this.playlist.next())
Ended ==
    /\ ~paused
    /\ duration # NaN
    /\ currentTime >= duration * PScale
    /\ \/ /\ onEndCb = UiOnEnd
          /\ index' = setIndex(index + 1)
          /\ \/ /\ current(index') = Null
                /\ paused' = TRUE
                /\ UNCHANGED <<src, currentTime, duration, pending, issued>>
             \/ /\ current(index') # Null
                /\ IssueLoad("play", current(index'))
       \/ /\ onEndCb # UiOnEnd
          /\ paused' = TRUE
          /\ UNCHANGED <<index, src, currentTime, duration, pending, issued>>
    /\ step' = [op |-> "ended", arg |-> 0, calls |-> dispatch(onEndCb)]
    /\ UNCHANGED <<tracks, observed, nowPlaying, handlerVars, beepVars>>

\* onTime(cb){ this._onTime = cb; }
onTime_keepsFirst(cb) == IF onTimeCb = Noop THEN cb ELSE onTimeCb
onTime(cb) == cb

EngineOnTime(cb) ==
    /\ onTimeCb' = onTime(cb)
    /\ timeReg' = Last(Append(timeReg, cb), 2)
    /\ step' = [op |-> "onTime", arg |-> 0]
    /\ UNCHANGED <<catalogVars, engineVars, nowPlaying, onEndCb, endReg, beepVars>>

\* onEnd(cb){ this._onEnd = cb; }
onEnd(cb) == cb

EngineOnEnd(cb) ==
    /\ onEndCb' = onEnd(cb)
    /\ endReg' = Last(Append(endReg, cb), 2)
    /\ step' = [op |-> "onEnd", arg |-> 0]
    /\ UNCHANGED <<catalogVars, engineVars, nowPlaying, onTimeCb, timeReg, beepVars>>

\* -------------------------------------------------------- _tinyBeepDataURI
\* const sampleRate = 8000, seconds = 0.25, len = sampleRate * seconds | 0, freq=440;
sampleRate == 8000
freq == 440
len == sampleRate \div 4

\* char codes of the string literals of the header
RIFF == <<82, 73, 70, 70>>
Holes == <<63, 63, 63, 63>>
WAVE == <<87, 65, 86, 69>>
fmtTag == <<102, 109, 116, 32>>
dataTag == <<100, 97, 116, 97>>

\* n & 255, (n>>8) & 255, (n>>16) & 255, (n>>24) & 255
u32(n) == << n % 256, (n \div 256) % 256, (n \div 65536) % 256, (n \div 16777216) % 256 >>

\* String.fromCharCode(16,0,0,0,1,0,1,0, sampleRate bytes, 1,0,8,0)
fmtBody == <<16, 0, 0, 0, 1, 0, 1, 0>> \o u32(sampleRate) \o <<1, 0, 8, 0>>

\* "RIFF????WAVEfmt " + String.fromCharCode(...) + "data????"
header == RIFF \o Holes \o WAVE \o fmtTag \o fmtBody \o dataTag \o Holes

\* (Math.sin(2*Math.PI*freq*i/sampleRate)*0.35 + 0.5)*255 | 0 over one period of
\* sampleRate / gcd(sampleRate, freq) = 200 samples, after which it repeats
sineU8 == <<
    127, 157, 184, 204, 215, 215, 205, 186, 160, 130,  99,  72,  52,  40,  38,  47,  66,  92, 121, 152,
    179, 201, 213, 216, 208, 190, 165, 135, 105,  77,  55,  41,  38,  45,  62,  86, 116, 146, 175, 198,
    212, 216, 210, 194, 170, 141, 110,  82,  58,  43,  38,  43,  58,  82, 110, 141, 170, 194, 210, 216,
    212, 198, 175, 146, 116,  86,  62,  45,  38,  41,  55,  77, 105, 135, 165, 190, 208, 216, 213, 201,
    179, 152, 121,  92,  66,  47,  38,  40,  52,  72,  99, 130, 160, 186, 205, 215, 215, 204, 184, 157,
    127,  97,  70,  50,  39,  39,  49,  68,  94, 124, 155, 182, 202, 214, 216, 207, 188, 162, 133, 102,
     75,  53,  41,  38,  46,  64,  89, 119, 149, 177, 199, 213, 216, 209, 192, 168, 138, 108,  79,  56,
     42,  38,  44,  60,  84, 113, 144, 172, 196, 211, 216, 211, 196, 172, 144, 113,  84,  60,  44,  38,
     42,  56,  79, 108, 138, 168, 192, 209, 216, 213, 199, 177, 149, 119,  89,  64,  46,  38,  41,  53,
     75, 102, 133, 162, 188, 207, 216, 214, 202, 182, 155, 124,  94,  68,  49,  39,  39,  50,  70,  97 >>

sampleU8(i) == sineU8[(i % Len(sineU8)) + 1]

\* index of the first occurrence of pat in str, 0 when there is none
IndexOf(str, pat) ==
    LET hits == { k \in 1..(Len(str) - Len(pat) + 1) :
                    SubSeq(str, k, k + Len(pat) - 1) = pat }
    IN  IF hits = {} THEN 0 ELSE CHOOSE k \in hits : \A j \in hits : k <= j

\* str.replace(pat, by) for a string pat: the first occurrence only
replace(str, pat, by) ==
    LET k == IndexOf(str, pat)
    IN  IF k = 0 THEN str
        ELSE SubSeq(str, 1, k - 1) \o by \o SubSeq(str, k + Len(pat), Len(str))

\* the call starts: header is built and data is ""
BeepStart ==
    /\ beepPc = "idle"
    /\ beepCalls < MaxBeeps
    /\ beepPc' = "loop"
    /\ beepI' = 0
    /\ data' = << >>
    /\ wav' = << >>
    /\ UNCHANGED <<catalogVars, engineVars, nowPlaying, step, handlerVars,
                   beepCalls, firstWav>>

\* one turn of for(let i=0;i<len;i++){ ... data += String.fromCharCode(u8); }
BeepSample ==
    /\ beepPc = "loop"
    /\ beepI < len
    /\ data' = Append(data, sampleU8(beepI))
    /\ beepI' = beepI + 1
    /\ UNCHANGED <<catalogVars, engineVars, nowPlaying, step, handlerVars,
                   beepPc, wav, beepCalls, firstWav>>

\* the sizes are patched into the header and data is appended
BeepReturn ==
    /\ beepPc = "loop"
    /\ beepI >= len
    /\ LET totalSize == 36 + Len(data)
           chunkSize == Len(data)
       IN  wav' = replace(replace(header, Holes, SubSeq(u32(totalSize), 1, 4)),
                          Holes, SubSeq(u32(chunkSize), 1, 4)) \o data
    /\ beepPc' = "idle"
    /\ beepCalls' = beepCalls + 1
    /\ firstWav' = IF beepCalls = 0 THEN wav' ELSE firstWav
    /\ UNCHANGED <<catalogVars, engineVars, nowPlaying, step, handlerVars, beepI, data>>

\* -------------------------------------------------------------------- Init
\* new Playlist(tracks) and new AudioEngine()
Constructed ==
    /\ tracks \in Catalogs
    /\ index = 0
    /\ ret = NoReturn
    /\ call = [op |-> "new", arg |-> 0, before |-> 0]
    /\ prevCall = [op |-> "new", arg |-> 0, before |-> 0]
    /\ trail = << >>
    /\ src = ""
    /\ paused = TRUE
    /\ currentTime = 0
    /\ duration = NaN
    /\ pending = << >>
    /\ issued = NoLoad
    /\ nowPlaying = 0
    /\ step = [op |-> "new", arg |-> 0]
    /\ beepPc = "idle"
    /\ beepI = 0
    /\ data = << >>
    /\ wav = << >>
    /\ beepCalls = 0
    /\ firstWav = << >>

\* the page: new PlayerUI(playlist, engine) has registered its callbacks
Init ==
    /\ Constructed
    /\ onTimeCb = UiOnTime /\ timeReg = <<UiOnTime>>
    /\ onEndCb = UiOnEnd /\ endReg = <<UiOnEnd>>

\* an AudioEngine on its own, with the callbacks of its constructor
EngineInit ==
    /\ Constructed
    /\ Len(tracks) <= MaxShown
    /\ onTimeCb = Noop /\ timeReg = << >>
    /\ onEndCb = Noop /\ endReg = << >>

CatalogNext ==
    \/ \E i \in (0 - MaxArg)..MaxArg : PlaylistSetIndex(i)
    \/ PlaylistCurrent
    \/ PlaylistNext
    \/ PlaylistPrev

CatalogSpec == Init /\ [][CatalogNext]_vars

Next ==
    \/ \E t \in Items : EngineLoad(t)
    \/ EnginePlay
    \/ EnginePause
    \/ EngineToggle
    \/ \E k \in SeekArgs : EngineSeekPercent(k)
    \/ \E t \in Items : UIPlay(t)
    \/ \E k \in 1..MaxPending : Resume(k)
    \/ PrevClick
    \/ NextClick
    \/ \E idx \in 0..(MaxShown - 1) : TrackClick(idx)
    \/ \E k \in SeekArgs : ProgressClick(k)
    \/ \E d \in Durations : LoadedMetadata(d)
    \/ Advance
    \/ TimeUpdate
    \/ Ended

\* the page after the bootstrap
PlayerInit == Init /\ Len(tracks) <= MaxShown

Spec == PlayerInit /\ [][Next]_vars

\* client code drives an AudioEngine and registers its own callbacks
EngineNext ==
    \/ \E cb \in Callbacks : EngineOnTime(cb)
    \/ \E cb \in Callbacks : EngineOnEnd(cb)
    \/ \E t \in Items : EngineLoad(t)
    \/ EnginePlay
    \/ EnginePause
    \/ \E k \in SeekArgs : EngineSeekPercent(k)
    \/ \E k \in 1..MaxPending : Resume(k)
    \/ \E d \in Durations : LoadedMetadata(d)
    \/ Advance
    \/ TimeUpdate
    \/ Ended

EngineSpec == EngineInit /\ [][EngineNext]_vars

\* the page in the hands of its user: buttons, keys, clicks and the events of
\* the audio element
PageNext ==
    \/ EngineToggle
    \/ PrevClick
    \/ NextClick
    \/ \E idx \in 0..(MaxShown - 1) : TrackClick(idx)
    \/ \E k \in SeekArgs : ProgressClick(k)
    \/ \E k \in 1..MaxPending : Resume(k)
    \/ \E d \in Durations : LoadedMetadata(d)
    \/ Advance
    \/ TimeUpdate
    \/ Ended

PageSpec == PlayerInit /\ [][PageNext]_vars

\* _tinyBeepDataURI() called time after time
BeepNext ==
    \/ BeepStart
    \/ BeepSample
    \/ BeepReturn

\* an AudioEngine of which only _tinyBeepDataURI is called
BeepInit == EngineInit /\ Len(tracks) = 0

BeepSpec == BeepInit /\ [][BeepNext]_vars

\* ================================================================= claims
\* C1: for a non-empty catalog of n tracks the cursor is always an integer
\* in 0..n-1, whatever setIndex / next / prev calls were made.
C1_CursorInRange ==
    Len(tracks) > 0 => index \in 0..(Len(tracks) - 1)

C1_Witness ==
    /\ Len(tracks) > 1
    /\ call.op = "setIndex" /\ call.arg < 0 - Len(tracks)
    /\ index > 0

\* C2: on a non-empty catalog of n tracks, setIndex(i) followed by current()
\* returns the track at the floor-modulus of i by n, for every integer i.
C2_SetIndexThenCurrent ==
    (Len(tracks) > 0 /\ call.op = "current" /\ prevCall.op = "setIndex")
        => ret = tracks[(prevCall.arg % Len(tracks)) + 1]

C2_Witness ==
    /\ Len(tracks) > 1
    /\ call.op = "current" /\ prevCall.op = "setIndex"
    /\ prevCall.arg < 0 - Len(tracks)
    /\ ret = tracks[2]

\* C3: n consecutive next() calls on a catalog of n >= 1 tracks return the
\* track that was current before the first of them; next() at the last
\* track returns the first one and prev() at the first returns the last.
C3_NextCycles ==
    /\ (Len(tracks) >= 1 /\ Len(trail) = Len(tracks)) => ret = tracks[trail[1] + 1]
    /\ (Len(tracks) >= 1 /\ call.op = "next" /\ call.before = Len(tracks) - 1)
            => ret = tracks[1]
    /\ (Len(tracks) >= 1 /\ call.op = "prev" /\ call.before = 0)
            => ret = tracks[Len(tracks)]

C3_Witness ==
    /\ Len(tracks) >= 3
    /\ Len(trail) = Len(tracks) /\ trail[1] = 1
    /\ ret = tracks[2]

\* C4: next() immediately followed by prev() leaves the cursor where it
\* was, for a catalog of any size, so current() is the same track as before.
C4_PrevUndoesNext ==
    (call.op = "prev" /\ prevCall.op = "next")
        => (index = prevCall.before /\ ret = current(prevCall.before))

C4_Witness ==
    /\ Len(tracks) >= 2
    /\ call.op = "prev" /\ prevCall.op = "next"
    /\ prevCall.before = Len(tracks) - 1
    /\ index = Len(tracks) - 1

\* C5: on an empty catalog current(), next() and prev() return null and
\* setIndex leaves the cursor where the constructor put it.
C5_EmptyCatalog ==
    Len(tracks) = 0 =>
        /\ index = 0
        /\ call.op \in {"current", "next", "prev"} => ret = Null

C5_Witness ==
    /\ Len(tracks) = 0
    /\ call.op \in {"next", "prev"}
    /\ prevCall.op = "setIndex" /\ prevCall.arg # 0
    /\ ret = Null

\* the source load(item) is to make active
ExpectedSrc(item) ==
    IF item = Null THEN tinyBeepDataURI
    ELSE IF item.audioUrl = "" THEN tinyBeepDataURI
    ELSE item.audioUrl

\* C6: load(item) makes the generated beep the active source when item is
\* null or has an empty audioUrl, and item.audioUrl otherwise, whatever the
\* transport was doing before.
C6_LoadSource ==
    step.op = "load" => src = ExpectedSrc(issued)

C6_Witness ==
    /\ step.op = "load"
    /\ issued # Null /\ issued.audioUrl = ""
    /\ nowPlaying # 0 /\ nowPlaying # issued.id
    /\ src = tinyBeepDataURI

\* C7: however loads overlap, the one audio source is that of the most
\* recently issued load, while loads are pending and once all have resumed;
\* a resuming earlier load does not bring its source back.
C7_LastLoadWins ==
    /\ issued = NoLoad => src = ""
    /\ issued # NoLoad => src = ExpectedSrc(issued)
    /\ pending # << >> => issued # NoLoad

C7_Witness ==
    /\ step.op = "resumePlay"
    /\ Len(pending) = 1 /\ pending[1].kind = "play"
    /\ nowPlaying # 0 /\ nowPlaying # pending[1].track.id
    /\ issued = pending[1].track
    /\ src = pending[1].track.audioUrl

\* C8: seekPercent(p) sets the elapsed time to p * duration when the duration
\* is positive, for every p (also below 0 and above 1), and changes nothing
\* of the playback state when the duration is 0 or unknown.
C8_SeekPercent ==
    [][step'.op = "seekPercent" =>
          /\ duration > 0 => currentTime' = step'.arg * duration
          /\ ~(duration > 0) => currentTime' = currentTime
          /\ UNCHANGED <<src, paused, duration, pending>>]_vars

C8_Witness ==
    /\ step.op = "seekPercent"
    /\ step.arg > PScale
    /\ duration > 0
    /\ currentTime = step.arg * duration
    /\ currentTime > duration * PScale

\* C9 as stated: after seekPercent(p) with p < 0 or p > 1 the elapsed time is
\* within [0, duration].
C9_SeekStaysInRange ==
    (step.op = "seekPercent" /\ (step.arg < 0 \/ step.arg > PScale) /\ duration > 0)
        => (0 <= currentTime /\ currentTime <= duration * PScale)

\* C9 amended: it is the progress click handler that clamps the percentage
\* into [0,1] before it calls seekPercent, so the elapsed time is within
\* [0, duration] after a progress click wherever the click lands.
C9_ProgressClickStaysInRange ==
    (step.op = "progressClick" /\ duration > 0)
        => (0 <= currentTime /\ currentTime <= duration * PScale)

C9_Witness ==
    /\ step.op = "progressClick"
    /\ step.arg > PScale
    /\ duration > 0
    /\ currentTime = duration * PScale

\* C10: the percent delivered with a time update is within [0,1]; it is
\* elapsed/duration clamped to [0,1] when the duration is positive and 0 when
\* the duration is 0 or unknown.
C10_PercentInUnitRange ==
    step.op = "timeupdate" =>
        LET pc == step.arg.percent IN
        /\ pc.den > 0 /\ 0 <= pc.num /\ pc.num <= pc.den
        /\ (duration > 0 /\ 0 <= currentTime /\ currentTime <= duration * PScale)
              => pc.num * duration * PScale = currentTime * pc.den
        /\ (duration > 0 /\ currentTime < 0) => pc.num = 0
        /\ (duration > 0 /\ currentTime > duration * PScale) => pc.num = pc.den
        /\ ~(duration > 0) => pc.num = 0

C10_Witness ==
    /\ step.op = "timeupdate"
    /\ duration > 0
    /\ currentTime < 0
    /\ step.arg.percent = Zero

\* C11 as stated: when the browser refuses a start, the operation that asked
\* for it (play, toggle from paused, play(track) after its load) hands the
\* refusal to its caller.
C11_RejectionReported ==
    (step.op \in {"play", "toggle", "resumePlay"} /\ step.arg.start /\ ~step.arg.ok)
        => step.arg.told = "rejected"

\* the 32-bit little-endian number at position k of a byte string
U32At(str, k) ==
    str[k] + 256 * str[k + 1] + 65536 * str[k + 2] + 16777216 * str[k + 3]

\* C12 as stated: every call of _tinyBeepDataURI() yields the same bytes, with
\* 2000 sample bytes after a header of 44 bytes, 2044 bytes in all.
C12_BeepLengths ==
    (beepCalls > 0 /\ beepPc = "idle") =>
        /\ wav = firstWav
        /\ Len(data) = 2000
        /\ Len(wav) = 2044
        /\ Len(wav) - Len(data) = 44

\* C18 as stated: the beep is a canonical WAV file: the "data" tag follows
\* the 16 bytes of the fmt body, the size declared after "RIFF" is the
\* number of bytes after it, and the size declared after "data" is the
\* number of sample bytes after it.
C18_CanonicalWav ==
    (beepCalls > 0 /\ beepPc = "idle") =>
        LET tag == IndexOf(wav, dataTag) IN
        /\ U32At(wav, 17) = 16
        /\ tag = 21 + 16
        /\ U32At(wav, 5) = 36 + Len(data)
        /\ U32At(wav, 5) = Len(wav) - 8
        /\ tag > 0 => U32At(wav, tag + 4) = Len(wav) - (tag + 7)

\* the callback a notification has to reach: the one registered last, or the
\* do-nothing callback of the constructor when none was registered
Registered(regs) == IF regs = << >> THEN Noop ELSE regs[Len(regs)]

\* C13: a time-update notification invokes one callback, once: the one passed
\* to the latest onTime call, or the do-nothing callback before any call.
C13_LastOnTimeWins ==
    step.op = "timeupdate" => step.calls = <<Registered(timeReg)>>

C13_Witness ==
    /\ step.op = "timeupdate"
    /\ Len(timeReg) = 2
    /\ timeReg[1] # timeReg[2]
    /\ step.calls = <<timeReg[2]>>

\* C14: the callback registered with onEnd is invoked once for each end of
\* media reached while playing, and an "ended" notification comes from nothing
\* else: a pause, a seek, a load and a play invoke no callback.
C14_EndedOncePerCompletion ==
    [][ /\ step'.op = "ended" =>
            /\ ~paused
            /\ duration # NaN
            /\ currentTime >= duration * PScale
            /\ step'.calls = <<Registered(endReg)>>
        /\ step'.op \in {"pause", "seekPercent", "load", "play"} =>
            "calls" \notin DOMAIN step' ]_vars

C14_Witness ==
    /\ step.op = "ended"
    /\ Len(endReg) = 2
    /\ endReg[1] # endReg[2]
    /\ step.calls = <<endReg[2]>>

\* C15: every load, whatever the transport was doing, leaves the elapsed time
\* at 0, and 0 is what timeInfo reports right after it.
C15_LoadResetsElapsed ==
    [][ (step'.op = "load" \/ Len(pending') > Len(pending)) =>
            /\ currentTime' = 0
            /\ timeInfo'.current = 0 ]_vars

C15_Witness ==
    /\ step.op = "load"
    /\ step.arg
    /\ currentTime = 0

\* C16: toggle asks for a start exactly when the element is paused and pauses
\* it otherwise; an accepted start leaves it playing, so two toggles in a row
\* whose starts are accepted bring audio.paused back to what it was.
C16_Toggle ==
    [][ step'.op = "toggle" =>
            /\ step'.arg.start = paused
            /\ ~paused => paused'
            /\ (paused /\ step'.arg.ok) => ~paused'
            /\ (step'.again /\ step'.arg.ok) => paused' = step.arg.start ]_vars

C16_Witness ==
    /\ step.op = "toggle"
    /\ step.again
    /\ step.arg.ok
    /\ step.arg.start
    /\ ~paused

\* C17: the transport starts idle and is never stuck: in every reachable state
\* load(item) is accepted for every item, a load that was issued can always
\* complete, and what it leaves is the paused element with that item's source.
C17_LoadAlwaysAccepted ==
    /\ step.op = "new" => (src = "" /\ paused /\ issued = NoLoad /\ pending = << >>)
    /\ Len(pending) < MaxPending => \A t \in Items : ENABLED EngineLoad(t)
    /\ \A k \in DOMAIN pending : pending[k].kind = "load" => ENABLED Resume(k)
    /\ step.op = "load" => (src = ExpectedSrc(issued) /\ paused /\ currentTime = 0)

C17_Witness ==
    /\ step.op = "load"
    /\ step.arg
    /\ Len(pending) > 1
    /\ issued # Null
    /\ src = ExpectedSrc(issued)

\* C19: on the page, with tracks in the catalog, each end of media moves the
\* cursor to the next position, the first after the last, assigns that
\* track's source and leaves a play of it waiting for the load; so when
\* the user stops navigating and tracks keep reaching their end, every
\* position comes up again and again.
NavOps == {"prevClick", "nextClick", "trackClick"}

C19_EndedAdvances ==
    /\ [][ (step'.op = "ended" /\ Len(tracks) > 0) =>
              /\ index' = (index + 1) % Len(tracks)
              /\ src' = ExpectedSrc(tracks[index' + 1])
              /\ pending' = Append(pending, [kind |-> "play", track |-> tracks[index' + 1]]) ]_vars
    /\ (([]<><<Ended>>_vars) /\ <>[][step'.op \notin NavOps]_vars) =>
            \A i \in 0..(MaxShown - 1) : []<>(i < Len(tracks) => index = i)

C19_Witness ==
    /\ step.op = "ended"
    /\ Len(tracks) > 1
    /\ index = 0
    /\ nowPlaying = tracks[Len(tracks)].id
    /\ pending = <<[kind |-> "play", track |-> tracks[1]]>>

\* C20: on the page, with tracks in the catalog, whenever no play(track) is
\* left waiting after some navigation, the audio source is the source of
\* catalog.current() and the now-playing label is of that track.
C20_SettledOnCurrent ==
    (Len(tracks) > 0 /\ pending = << >> /\ issued # NoLoad) =>
        /\ src = ExpectedSrc(current(index))
        /\ nowPlaying = current(index).id

C20_Witness ==
    /\ step.op = "resumePlay"
    /\ step.again
    /\ pending = << >>
    /\ src = ExpectedSrc(current(index))
    /\ nowPlaying = current(index).id

====
